---- MODULE Spec2Model ----
(***************************************************************************)
(* B2B: in-place conversion of a binary file into a 32-bit V5 bitmap that  *)
(* holds the file's bytes, and back.  The model follows src/src/header.rs  *)
(* (header layout, geometry, validation, digest slot) and src/src/main.rs  *)
(* (bin_to_bmp, bmp_to_bin, get_file_hash).                                *)
(*                                                                         *)
(* Numbers.  TLC's integers are 32-bit signed.  A u32 is held as the       *)
(* integer with the same 32-bit pattern: v below 2^31 as v, v from 2^31 up *)
(* as v - 2^32.  U32Lt / U32Ge compare such patterns as unsigned numbers.  *)
(* A u128 is held as its 16 bytes, least significant byte first.           *)
(* File sizes in the model stay below 2^31, where width * height * 4 and   *)
(* pixmap_size + 138 do not leave u32.                                     *)
(*                                                                         *)
(* Each call is a sequence of steps in the order of its statements; pc     *)
(* names the next one.  Renaming the file (rename = true) is not modelled. *)
(***************************************************************************)
EXTENDS Integers, Sequences, FiniteSets, TLC

\* ------------------------------------------------------------------------
\* Program constants (src/src/header.rs)
\* ------------------------------------------------------------------------
BYTES_PER_PIXEL == 4
BITMAP_HEADER_SIZE == 138
BITMAP_ID == 19778
B2B_HEADER_SIZE == 40

\* 0x06FAFEC0D7EF10C4468E85B0B9C0FB9E, least significant byte first
B2B_SIGNATURE ==
    << 158, 251, 192, 185, 176, 133, 142, 70,
       196, 16, 239, 215, 192, 254, 250, 6 >>

total_header_size == BITMAP_HEADER_SIZE + B2B_HEADER_SIZE

Byte == 0..255

\* ------------------------------------------------------------------------
\* Integer helpers
\* ------------------------------------------------------------------------
RECURSIVE Pow2(_)
Pow2(n) == IF n = 0 THEN 1 ELSE 2 * Pow2(n - 1)

\* floor(log2 n) for n >= 1
RECURSIVE Log2(_)
Log2(n) == IF n <= 1 THEN 0 ELSE 1 + Log2(n \div 2)

\* floor(sqrt n) by bisection on [lo, hi), invariant lo^2 <= n < hi^2
RECURSIVE IsqrtIn(_, _, _)
IsqrtIn(n, lo, hi) ==
    IF hi - lo <= 1 THEN lo
    ELSE LET mid == (lo + hi) \div 2
         IN  IF mid * mid <= n THEN IsqrtIn(n, mid, hi) ELSE IsqrtIn(n, lo, mid)

Isqrt(n) == IsqrtIn(n, 0, 46341)

\* unsigned comparison of two u32 bit patterns
U32Lt(a, b) == IF (a < 0) = (b < 0) THEN a < b ELSE b < 0
U32Ge(a, b) == ~U32Lt(a, b)

\* ------------------------------------------------------------------------
\* IEEE-754 binary32 arithmetic as get_properties uses it
\* ------------------------------------------------------------------------
\* `n as f32` / the rounding of an exact integer result: round to 24
\* significant bits, ties to even.  n is a non-negative integer.
F32Round(n) ==
    IF n < 16777216 THEN n
    ELSE LET e    == Log2(n) - 23
             unit == Pow2(e)
             q    == n \div unit
             r    == n % unit
             half == unit \div 2
         IN  IF r > half \/ (r = half /\ q % 2 = 1)
             THEN (q + 1) * unit
             ELSE q * unit

\* ((t / 4.0).sqrt().ceil()) as u32 for an f32 t holding a positive integer.
\* t / 4.0 is exact.  With n = floor(sqrt(t/4)) and d = t - 4n^2 > 0 the
\* correctly rounded root is n itself exactly when sqrt(t/4) lies below the
\* midpoint n + 2^(k-24) of n and the next f32 (k = floor(log2 n)), that is
\* when d * 2^(21-k) <= n; otherwise it lies in (n, n+1] and the ceiling is
\* n + 1.
F32CeilSqrtQuarter(t) ==
    LET n == Isqrt(t) \div 2
        d == t - 4 * n * n
    IN  IF d = 0 THEN n
        ELSE IF n = 0 THEN 1
        ELSE IF d * Pow2(21 - Log2(n)) <= n THEN n
        ELSE n + 1

\* Fault variant of F32CeilDiv: the quotient truncated instead of rounded
\* up (`.ceil()` left out).
F32FloorDiv(t, den) == t \div den

\* ((t / den).ceil()) as u32 for f32 t, den holding positive integers.
\* With m = floor(t/den) and r = t mod den > 0 the correctly rounded
\* quotient is m exactly when r/den is at most half the f32 spacing
\* 2^(k-23) above m (a tie goes to m, whose significand is even), that is
\* when r * 2^(24-k) <= den; otherwise the ceiling is m + 1.
F32CeilDiv(t, den) ==
    LET m == t \div den
        r == t % den
    IN  IF r = 0 THEN m
        ELSE IF m = 0 THEN 1
        ELSE IF r <= den \div Pow2(24 - Log2(m)) THEN m
        ELSE m + 1

\* Header::get_properties: (width, height, pixmap_size, padding_size).
\* padding_size is the wrapping u32 difference; `underflow` tells that the
\* subtraction went below zero (a panic when overflow checks are compiled
\* in, the wrapped value otherwise).
get_properties(file_size) ==
    LET total_data_size == F32Round(F32Round(file_size) + B2B_HEADER_SIZE)
        width  == F32CeilSqrtQuarter(total_data_size)
        height == F32CeilDiv(total_data_size, width * BYTES_PER_PIXEL)
        pixmap_size == width * height * BYTES_PER_PIXEL
    IN  [ width        |-> width,
          height       |-> height,
          pixmap_size  |-> pixmap_size,
          padding_size |-> pixmap_size - file_size - B2B_HEADER_SIZE,
          underflow    |-> pixmap_size < file_size + B2B_HEADER_SIZE ]

\* ------------------------------------------------------------------------
\* Byte encodings (bincode: fixed width, little endian)
\* ------------------------------------------------------------------------
Zeros(n) == [i \in 1..n |-> 0]

LE16(v) == << v % 256, (v \div 256) % 256 >>

LE32(v) ==
    << v % 256, (v \div 256) % 256, (v \div 65536) % 256,
       (v \div 16777216) % 256 >>

\* the fields read back from `bytes` at 0-based offset `off`
U16At(bytes, off) == bytes[off + 1] + 256 * bytes[off + 2]

U32At(bytes, off) ==
    bytes[off + 1] + 256 * bytes[off + 2] + 65536 * bytes[off + 3]
    + 16777216 * (IF bytes[off + 4] >= 128 THEN bytes[off + 4] - 256
                  ELSE bytes[off + 4])

U128At(bytes, off) == [i \in 1..16 |-> bytes[off + i]]

\* u32 addition, wrapping at 2^32 (operands here stay far below 2^31)
U32Add(a, b) == a + b

\* ------------------------------------------------------------------------
\* CompactOptionalDigest (Option<u128> as [some, val])
\* ------------------------------------------------------------------------
None == [some |-> FALSE, val |-> Zeros(16)]
Some(num) == [some |-> TRUE, val |-> num]

\* num | (1 << 127) and num & !(1 << 127): bit 127 is bit 7 of byte 16
SetBit127(num) ==
    [num EXCEPT ![16] = IF num[16] >= 128 THEN num[16] ELSE num[16] + 128]
ClearBit127(num) ==
    [num EXCEPT ![16] = IF num[16] >= 128 THEN num[16] - 128 ELSE num[16]]

CompactOptionalDigest_new(optional_digest) ==
    IF optional_digest.some THEN SetBit127(optional_digest.val)
    ELSE Zeros(16)

CompactOptionalDigest_get(self) ==
    IF self[16] >= 128 THEN Some(ClearBit127(self)) ELSE None

\* called only where get() is Some
CompactOptionalDigest_compare(self, other) ==
    CompactOptionalDigest_get(self).val = ClearBit127(other)

\* ------------------------------------------------------------------------
\* Header
\* ------------------------------------------------------------------------
BitmapV5Header_new(width, height, pixmap_size) ==
    [ id |-> BITMAP_ID,
      file_size |-> U32Add(pixmap_size, BITMAP_HEADER_SIZE),
      unused1 |-> 0,
      offset |-> BITMAP_HEADER_SIZE,
      dib_size |-> BITMAP_HEADER_SIZE - 14,
      width |-> width,
      height |-> height,
      pbnlanes |-> 1,
      bpp |-> BYTES_PER_PIXEL * 8,
      compression |-> 3,
      pixmap_size |-> pixmap_size,
      horizontal |-> 4000,
      vertical |-> 4000,
      palette |-> 0,
      important |-> 0,
      red_mask |-> 16711680,
      green_mask |-> 65280,
      blue_mask |-> 255,
      alpha_mask |-> -16777216,       \* 0xFF000000 as a u32 bit pattern
      win |-> 1466527264,             \* 0x57696E20
      unused2a |-> Zeros(16),
      unused2b |-> Zeros(16),
      unused2c |-> 0,
      red_gamma |-> 0,
      green_gamma |-> 0,
      blue_gamma |-> 0,
      intent |-> 0,
      profile_data |-> 0,
      profile_size |-> 0,
      reserved |-> 0 ]

B2BHeader_new(padding_size, file_size, optional_digest) ==
    [ padding_size |-> padding_size,
      original_file_size |-> file_size,      \* file_size as u32
      signature |-> B2B_SIGNATURE,
      od |-> CompactOptionalDigest_new(optional_digest) ]

Header_new(file_size, optional_digest) ==
    LET p == get_properties(file_size)
    IN  [ bmp |-> BitmapV5Header_new(p.width, p.height, p.pixmap_size),
          b2b |-> B2BHeader_new(p.padding_size, file_size, optional_digest) ]

\* bincode::serialize_into: the fields in declaration order
Serialize(h) ==
    LE16(h.bmp.id) \o LE32(h.bmp.file_size) \o LE32(h.bmp.unused1)
    \o LE32(h.bmp.offset) \o LE32(h.bmp.dib_size) \o LE32(h.bmp.width)
    \o LE32(h.bmp.height) \o LE16(h.bmp.pbnlanes) \o LE16(h.bmp.bpp)
    \o LE32(h.bmp.compression) \o LE32(h.bmp.pixmap_size)
    \o LE32(h.bmp.horizontal) \o LE32(h.bmp.vertical)
    \o LE32(h.bmp.palette) \o LE32(h.bmp.important)
    \o LE32(h.bmp.red_mask) \o LE32(h.bmp.green_mask)
    \o LE32(h.bmp.blue_mask) \o LE32(h.bmp.alpha_mask) \o LE32(h.bmp.win)
    \o h.bmp.unused2a \o h.bmp.unused2b \o LE32(h.bmp.unused2c)
    \o LE32(h.bmp.red_gamma) \o LE32(h.bmp.green_gamma)
    \o LE32(h.bmp.blue_gamma) \o LE32(h.bmp.intent)
    \o LE32(h.bmp.profile_data) \o LE32(h.bmp.profile_size)
    \o LE32(h.bmp.reserved)
    \o LE32(h.b2b.padding_size) \o LE32(h.b2b.original_file_size)
    \o h.b2b.signature \o h.b2b.od

\* bincode::deserialize_from on at least total_header_size bytes
Deserialize(bytes) ==
    [ bmp |->
        [ id |-> U16At(bytes, 0),
          file_size |-> U32At(bytes, 2),
          unused1 |-> U32At(bytes, 6),
          offset |-> U32At(bytes, 10),
          dib_size |-> U32At(bytes, 14),
          width |-> U32At(bytes, 18),
          height |-> U32At(bytes, 22),
          pbnlanes |-> U16At(bytes, 26),
          bpp |-> U16At(bytes, 28),
          compression |-> U32At(bytes, 30),
          pixmap_size |-> U32At(bytes, 34),
          horizontal |-> U32At(bytes, 38),
          vertical |-> U32At(bytes, 42),
          palette |-> U32At(bytes, 46),
          important |-> U32At(bytes, 50),
          red_mask |-> U32At(bytes, 54),
          green_mask |-> U32At(bytes, 58),
          blue_mask |-> U32At(bytes, 62),
          alpha_mask |-> U32At(bytes, 66),
          win |-> U32At(bytes, 70),
          unused2a |-> U128At(bytes, 74),
          unused2b |-> U128At(bytes, 90),
          unused2c |-> U32At(bytes, 106),
          red_gamma |-> U32At(bytes, 110),
          green_gamma |-> U32At(bytes, 114),
          blue_gamma |-> U32At(bytes, 118),
          intent |-> U32At(bytes, 122),
          profile_data |-> U32At(bytes, 126),
          profile_size |-> U32At(bytes, 130),
          reserved |-> U32At(bytes, 134) ],
      b2b |->
        [ padding_size |-> U32At(bytes, 138),
          original_file_size |-> U32At(bytes, 142),
          signature |-> U128At(bytes, 146),
          od |-> U128At(bytes, 162) ] ]

pixmap_size(h) == h.bmp.pixmap_size
padding_size(h) == h.b2b.padding_size
original_file_size(h) == h.b2b.original_file_size

\* Fault variant of check_signature: the most significant byte of the
\* signature is not compared.
check_signature_low_bytes(h) ==
    SubSeq(h.b2b.signature, 1, 15) = SubSeq(B2B_SIGNATURE, 1, 15)

\* the three validations: TRUE is Ok(()), FALSE the check's own error
check_signature(h) == h.b2b.signature = B2B_SIGNATURE
check_id(h) == h.bmp.id = BITMAP_ID
check_padding_size(h) == ~U32Ge(padding_size(h), pixmap_size(h))

\* Header::verify: the (verified, error) pair
verify(h, other_digest) ==
    IF ~CompactOptionalDigest_get(h.b2b.od).some
    THEN << FALSE, TRUE >>
    ELSE << CompactOptionalDigest_compare(h.b2b.od, other_digest), FALSE >>

\* ------------------------------------------------------------------------
\* File operations (std::fs::File on a regular file)
\* ------------------------------------------------------------------------
Min(a, b) == IF a <= b THEN a ELSE b

\* set_len: truncate, or extend with zero bytes
SetLen(f, n) ==
    IF n <= Len(f) THEN SubSeq(f, 1, n) ELSE f \o Zeros(n - Len(f))

\* number of bytes one read of up to `cnt` bytes returns at offset `pos`
ReadCount(f, pos, cnt) ==
    IF pos >= Len(f) THEN 0 ELSE Min(cnt, Len(f) - pos)

\* read into a zero-initialised buffer of `cnt` bytes at offset `pos`
ReadAt(f, pos, cnt) ==
    [i \in 1..cnt |-> IF pos + i <= Len(f) THEN f[pos + i] ELSE 0]

\* write_all of `data` at offset `pos` <= Len(f)
WriteAt(f, pos, data) ==
    [i \in 1..(IF pos + Len(data) > Len(f) THEN pos + Len(data) ELSE Len(f))
        |-> IF i > pos /\ i <= pos + Len(data) THEN data[i - pos] ELSE f[i]]

\* ------------------------------------------------------------------------
\* get_file_hash.  Blake256 is an external crate: a two-word running
\* checksum stands in for it (what matters here is that it is a function
\* of the file's bytes alone, fed by the length and by every byte with its
\* position).  hash.update over the successive reads of up to 1024 bytes
\* digests their concatenation, the whole file.  The first 16 bytes of the
\* digest are taken big-endian, so digest byte i is byte 17 - i of the
\* u128.
\* ------------------------------------------------------------------------
\* sum of term(i) over lo..hi, by halving
RECURSIVE RangeSum(_, _, _, _)
RangeSum(bytes, weighted, lo, hi) ==
    IF lo > hi THEN 0
    ELSE IF lo = hi
         THEN (bytes[lo] + 1) * (IF weighted THEN Len(bytes) - lo + 1 ELSE 1)
    ELSE LET mid == (lo + hi) \div 2
         IN  RangeSum(bytes, weighted, lo, mid)
             + RangeSum(bytes, weighted, mid + 1, hi)

HashUpdate(bytes) ==
    << (1 + RangeSum(bytes, FALSE, 1, Len(bytes))) % 65521,
       (Len(bytes) + RangeSum(bytes, TRUE, 1, Len(bytes))) % 65521 >>

HashFinalize(st) ==
    [i \in 1..16 |-> (st[1] * i + st[2] * (17 - i) + i * i) % 256]

get_file_hash(f) ==
    LET fin == HashFinalize(HashUpdate(f))
    IN  [i \in 1..16 |-> fin[17 - i]]

\* ------------------------------------------------------------------------
\* Bounds and inputs of the model
\* ------------------------------------------------------------------------
\* input files have 0..MaxSmall bytes, or within Near of total_header_size
MaxSmall == 10
Near == 3
\* bytes of a produced bitmap changed on disk before it is converted back
MaxCorrupt == 2
\* get_properties is applied to 0..GeomSmall and to the sizes within
\* GeomWindow of 2^24 - B2B_HEADER_SIZE, where f32 stops being exact
GeomSmall == 400
GeomWindow == 24

InputSizes ==
    (0..MaxSmall)
    \cup ((total_header_size - Near)..(total_header_size + Near))

Pattern(n, seed, stride) == [i \in 1..n |-> (seed + stride * (i - 1)) % 256]

\* all zero bytes; "BM..." (the bitmap id in front); a mixed run
Patterns == { << 0, 0 >>, << 66, 11 >>, << 200, 7 >> }

Hello == << 104, 101, 108, 108, 111 >>

Inputs ==
    { Pattern(n, p[1], p[2]) : n \in InputSizes, p \in Patterns }
    \cup { Hello }

GeomSizes ==
    (0..GeomSmall)
    \cup ((16777216 - B2B_HEADER_SIZE - GeomWindow)
           ..(16777216 - B2B_HEADER_SIZE + GeomWindow))

\* the byte changes Corrupt may make: << 0-based offset, kind >>
CorruptWrites ==
    { << 0, "low" >>,       \* bmp.id
      << 34, "zero" >>,     \* bmp.pixmap_size, low byte
      << 138, "low" >>,     \* b2b.padding_size, low byte
      << 141, "ones" >>,    \* b2b.padding_size, high byte
      << 146, "low" >>,     \* b2b.signature, first byte
      << 161, "high" >>,    \* b2b.signature, last byte
      << 162, "low" >>,     \* b2b.od, first byte
      << 177, "high" >>,    \* b2b.od, last byte (the presence bit)
      << 178, "low" >> }    \* first byte after the header

Corrupted(b, kind) ==
    CASE kind = "low"  -> IF b % 2 = 0 THEN b + 1 ELSE b - 1
      [] kind = "high" -> (b + 128) % 256
      [] kind = "zero" -> 0
      [] kind = "ones" -> 255

NoHeader == Deserialize(Zeros(total_header_size))

NoProps ==
    [ width |-> 0, height |-> 0, pixmap_size |-> 0, padding_size |-> 0,
      underflow |-> FALSE, panicked |-> FALSE ]

\* ------------------------------------------------------------------------
\* State
\* ------------------------------------------------------------------------
VARIABLES
    file,       \* the bytes of the file on disk
    cursor,     \* position of the open file handle
    pc,         \* "idle" or the step the running call is at
    op,         \* the call that runs or ran last
    flag,       \* its create_digest / verify argument
    od,         \* bin_to_bmp's optional digest (kept after it returns)
    header,     \* the header built (bin_to_bmp) or parsed (bmp_to_bin)
    buffer,     \* the total_header_size byte buffer
    err,        \* "none", or the error the last call returned
    outcome,    \* what verification reported
    stage,      \* "raw", "bitmap" (bin_to_bmp returned Ok), "final"
    pre,        \* the file's bytes when the call began
    orig,       \* the input file's bytes
    intact,     \* the bitmap on disk is as bin_to_bmp left it
    embedded,   \* bin_to_bmp returned Ok
    reloc_at,   \* offset at which bin_to_bmp appended the saved prefix
    restored,   \* the file as bmp_to_bin's set_len left it
    corrupts,   \* number of Corrupt steps so far
    g_size,     \* get_properties' argument
    g_pc,       \* "off", "ready", "done"
    g_out       \* get_properties' result

io == << file, cursor, buffer >>
call == << op, flag, pre >>
ghost == << orig, intact, embedded, reloc_at, restored, corrupts >>
geom == << g_size, g_pc, g_out >>

vars ==
    << file, cursor, pc, op, flag, od, header, buffer, err, outcome, stage,
       pre, orig, intact, embedded, reloc_at, restored, corrupts,
       g_size, g_pc, g_out >>

Idle ==
    /\ cursor = 0
    /\ pc = "idle"
    /\ op = "none"
    /\ flag = FALSE
    /\ od = None
    /\ header = NoHeader
    /\ buffer = Zeros(total_header_size)
    /\ err = "none"
    /\ outcome = "none"
    /\ intact = FALSE
    /\ embedded = FALSE
    /\ reloc_at = 0
    /\ restored = << >>
    /\ corrupts = 0

Init ==
    /\ file \in Inputs
    /\ orig = file
    /\ pre = file
    /\ stage = "raw"
    /\ Idle
    /\ g_size = 0
    /\ g_pc = "off"
    /\ g_out = NoProps

\* ------------------------------------------------------------------------
\* bin_to_bmp (src/src/main.rs)
\* ------------------------------------------------------------------------
BinToBmp_call(create_digest) ==
    /\ pc = "idle"
    /\ stage = "raw"
    /\ pc' = "b_hash"
    /\ op' = "bin_to_bmp"
    /\ flag' = create_digest
    /\ pre' = file
    /\ err' = "none"
    /\ outcome' = "none"
    /\ cursor' = 0
    /\ buffer' = Zeros(total_header_size)
    /\ header' = NoHeader
    /\ UNCHANGED << file, od, stage, ghost, geom >>

\* let od = if create_digest { Some(get_file_hash(&path)?) } else { None }
BinToBmp_hash ==
    /\ pc = "b_hash"
    /\ od' = IF flag THEN Some(get_file_hash(file)) ELSE None
    /\ pc' = "b_header"
    /\ UNCHANGED << io, call, header, err, outcome, stage, ghost, geom >>

\* open; file_size = stream_len; Header::new(file_size, od).  The padding
\* subtraction panics when it underflows and overflow checks are compiled
\* in; otherwise it wraps.
BinToBmp_header ==
    /\ pc = "b_header"
    /\ \E checks \in BOOLEAN :
          IF get_properties(Len(file)).underflow /\ checks
          THEN /\ err' = "panic"
               /\ pc' = "idle"
               /\ stage' = "final"
               /\ UNCHANGED << header, cursor >>
          ELSE /\ header' = Header_new(Len(file), od)
               /\ cursor' = 0
               /\ pc' = "b_expand"
               /\ UNCHANGED << err, stage >>
    /\ UNCHANGED << file, buffer, call, od, outcome, ghost, geom >>

\* if file_size < total_header_size { file.set_len(total_header_size) }
\* (file_size is the stream_len that Header::new stored as
\* original_file_size)
BinToBmp_expand ==
    /\ pc = "b_expand"
    /\ file' = IF original_file_size(header) < total_header_size
               THEN SetLen(file, total_header_size)
               ELSE file
    /\ pc' = "b_read"
    /\ UNCHANGED << cursor, buffer, call, od, header, err, outcome, stage,
                    ghost, geom >>

\* file.read(&mut buffer)
BinToBmp_read ==
    /\ pc = "b_read"
    /\ buffer' = ReadAt(file, cursor, total_header_size)
    /\ cursor' = cursor + ReadCount(file, cursor, total_header_size)
    /\ pc' = "b_append"
    /\ UNCHANGED << file, call, od, header, err, outcome, stage, ghost, geom >>

\* file.seek(SeekFrom::End(0)); file.write_all(&buffer)
BinToBmp_append ==
    /\ pc = "b_append"
    /\ file' = WriteAt(file, Len(file), buffer)
    /\ cursor' = Len(file) + Len(buffer)
    /\ reloc_at' = Len(file)
    /\ pc' = "b_serialize"
    /\ UNCHANGED << buffer, call, od, header, err, outcome, stage, orig,
                    intact, embedded, restored, corrupts, geom >>

\* file.seek(SeekFrom::Start(0)); bincode::serialize_into(&mut file, &header)
BinToBmp_serialize ==
    /\ pc = "b_serialize"
    /\ file' = WriteAt(file, 0, Serialize(header))
    /\ cursor' = total_header_size
    /\ pc' = "b_resize"
    /\ UNCHANGED << buffer, call, od, header, err, outcome, stage, ghost,
                    geom >>

\* Fault variant of BinToBmp_resize: the final length counts the whole
\* 178-byte header instead of the 138-byte bitmap header.
BinToBmp_resize_total ==
    /\ pc = "b_resize"
    /\ file' = SetLen(file, U32Add(pixmap_size(header), total_header_size))
    /\ pc' = "idle"
    /\ stage' = "bitmap"
    /\ embedded' = TRUE
    /\ intact' = TRUE
    /\ UNCHANGED << cursor, buffer, call, od, header, err, outcome, orig,
                    reloc_at, restored, corrupts, geom >>

\* file.set_len(pixmap_size + bitmap_header_size); Ok(())
BinToBmp_resize ==
    /\ pc = "b_resize"
    /\ file' = SetLen(file, U32Add(pixmap_size(header), BITMAP_HEADER_SIZE))
    /\ pc' = "idle"
    /\ stage' = "bitmap"
    /\ embedded' = TRUE
    /\ intact' = TRUE
    /\ UNCHANGED << cursor, buffer, call, od, header, err, outcome, orig,
                    reloc_at, restored, corrupts, geom >>

\* ------------------------------------------------------------------------
\* bmp_to_bin (src/src/main.rs)
\* ------------------------------------------------------------------------
BmpToBin_call(verify_flag) ==
    /\ pc = "idle"
    /\ stage \in { "raw", "bitmap" }
    /\ pc' = "e_parse"
    /\ op' = "bmp_to_bin"
    /\ flag' = verify_flag
    /\ pre' = file
    /\ err' = "none"
    /\ outcome' = "none"
    /\ cursor' = 0
    /\ buffer' = Zeros(total_header_size)
    /\ header' = NoHeader
    /\ UNCHANGED << file, od, stage, ghost, geom >>

\* the `?` of a failed step: the call returns the error
Fail(kind) ==
    /\ err' = kind
    /\ pc' = "idle"
    /\ stage' = "final"

\* open; let header: Header = bincode::deserialize_from(&file)?
BmpToBin_parse ==
    /\ pc = "e_parse"
    /\ IF Len(file) < total_header_size
       THEN /\ Fail("BincodeError")
            /\ UNCHANGED << header, cursor >>
       ELSE /\ header' = Deserialize(file)
            /\ cursor' = total_header_size
            /\ pc' = "e_check_id"
            /\ UNCHANGED << err, stage >>
    /\ UNCHANGED << file, buffer, call, od, outcome, ghost, geom >>

\* header.check_id()?
BmpToBin_check_id ==
    /\ pc = "e_check_id"
    /\ IF check_id(header)
       THEN pc' = "e_check_padding_size" /\ UNCHANGED << err, stage >>
       ELSE Fail("InvalidBitmapID")
    /\ UNCHANGED << io, call, od, header, outcome, ghost, geom >>

\* header.check_padding_size()?
BmpToBin_check_padding_size ==
    /\ pc = "e_check_padding_size"
    /\ IF check_padding_size(header)
       THEN pc' = "e_check_signature" /\ UNCHANGED << err, stage >>
       ELSE Fail("BadPaddingSize")
    /\ UNCHANGED << io, call, od, header, outcome, ghost, geom >>

\* Fault variant of BmpToBin_check_signature: the check's result is
\* dropped (no `?`) and the call goes on.
BmpToBin_check_signature_dropped ==
    /\ pc = "e_check_signature"
    /\ pc' = "e_seek"
    /\ UNCHANGED << io, call, od, header, err, outcome, stage, ghost, geom >>

\* header.check_signature()?
BmpToBin_check_signature ==
    /\ pc = "e_check_signature"
    /\ IF check_signature(header)
       THEN pc' = "e_seek" /\ UNCHANGED << err, stage >>
       ELSE Fail("InvalidB2BSignature")
    /\ UNCHANGED << io, call, od, header, outcome, ghost, geom >>

\* the offset SeekFrom::End(-(total_header_size) - padding_size) names;
\* a padding_size of 2^31 or more is beyond any file of the model
SeekTarget(len, h) == len - total_header_size - padding_size(h)

\* file.seek(SeekFrom::End(..))?: a negative offset is an I/O error
BmpToBin_seek ==
    /\ pc = "e_seek"
    /\ IF padding_size(header) < 0 \/ SeekTarget(Len(file), header) < 0
       THEN /\ Fail("IOError")
            /\ UNCHANGED cursor
       ELSE /\ cursor' = SeekTarget(Len(file), header)
            /\ pc' = "e_read"
            /\ UNCHANGED << err, stage >>
    /\ UNCHANGED << file, buffer, call, od, header, outcome, ghost, geom >>

\* file.read(&mut buffer)
BmpToBin_read ==
    /\ pc = "e_read"
    /\ buffer' = ReadAt(file, cursor, total_header_size)
    /\ cursor' = cursor + ReadCount(file, cursor, total_header_size)
    /\ pc' = "e_write"
    /\ UNCHANGED << file, call, od, header, err, outcome, stage, ghost, geom >>

\* file.seek(SeekFrom::Start(0)); file.write_all(&buffer)
BmpToBin_write ==
    /\ pc = "e_write"
    /\ file' = WriteAt(file, 0, buffer)
    /\ cursor' = Len(buffer)
    /\ pc' = "e_set_len"
    /\ UNCHANGED << buffer, call, od, header, err, outcome, stage, ghost,
                    geom >>

\* file.set_len(original_file_size); the handle is dropped; without
\* `verify` the call returns Ok(())
BmpToBin_set_len ==
    /\ pc = "e_set_len"
    /\ file' = SetLen(file, original_file_size(header))
    /\ restored' = file'
    /\ pc' = IF flag THEN "e_verify" ELSE "idle"
    /\ stage' = IF flag THEN stage ELSE "final"
    /\ UNCHANGED << cursor, buffer, call, od, header, err, outcome, orig,
                    intact, embedded, reloc_at, corrupts, geom >>

\* what the verify branch prints for the (verified, error) pair
Outcome(pair) ==
    IF pair[2] THEN "NotPossible"
    ELSE IF pair[1] THEN "Verified" ELSE "Mismatched"

\* Fault variant of BmpToBin_verify: a failed verification is raised as an
\* error and the bitmap is put back.
BmpToBin_verify_rollback ==
    /\ pc = "e_verify"
    /\ outcome' = Outcome(verify(header, get_file_hash(file)))
    /\ IF outcome' = "Mismatched"
       THEN file' = pre /\ err' = "VerificationFailed"
       ELSE UNCHANGED << file, err >>
    /\ pc' = "idle"
    /\ stage' = "final"
    /\ UNCHANGED << cursor, buffer, call, od, header, ghost, geom >>

\* if verify { header.verify(get_file_hash(&path)?) ... }; Ok(())
BmpToBin_verify ==
    /\ pc = "e_verify"
    /\ outcome' = Outcome(verify(header, get_file_hash(file)))
    /\ pc' = "idle"
    /\ stage' = "final"
    /\ UNCHANGED << io, call, od, header, err, ghost, geom >>

\* ------------------------------------------------------------------------
\* The environment: a produced bitmap is changed on disk between the runs
\* ------------------------------------------------------------------------
Corrupt(w) ==
    /\ pc = "idle"
    /\ stage = "bitmap"
    /\ corrupts < MaxCorrupt
    /\ w[1] < Len(file)
    /\ Corrupted(file[w[1] + 1], w[2]) # file[w[1] + 1]
    /\ file' = [file EXCEPT ![w[1] + 1] = Corrupted(file[w[1] + 1], w[2])]
    /\ intact' = FALSE
    /\ corrupts' = corrupts + 1
    /\ UNCHANGED << cursor, buffer, pc, call, od, header, err, outcome,
                    stage, orig, embedded, reloc_at, restored, geom >>

Next ==
    \/ \E create_digest \in BOOLEAN : BinToBmp_call(create_digest)
    \/ BinToBmp_hash
    \/ BinToBmp_header
    \/ BinToBmp_expand
    \/ BinToBmp_read
    \/ BinToBmp_append
    \/ BinToBmp_serialize
    \/ BinToBmp_resize
    \/ \E verify_flag \in BOOLEAN : BmpToBin_call(verify_flag)
    \/ BmpToBin_parse
    \/ BmpToBin_check_id
    \/ BmpToBin_check_padding_size
    \/ BmpToBin_check_signature
    \/ BmpToBin_seek
    \/ BmpToBin_read
    \/ BmpToBin_write
    \/ BmpToBin_set_len
    \/ BmpToBin_verify
    \/ \E w \in CorruptWrites : Corrupt(w)

Spec == Init /\ [][Next]_vars

\* ------------------------------------------------------------------------
\* Header::get_properties on its own, over GeomSizes
\* ------------------------------------------------------------------------
GeomInit ==
    /\ g_size \in GeomSizes
    /\ g_pc = "ready"
    /\ g_out = NoProps
    /\ file = << >>
    /\ orig = << >>
    /\ pre = << >>
    /\ stage = "final"
    /\ Idle

\* one call: the result, or a panic where the padding subtraction
\* underflows and overflow checks are compiled in
Geom_get_properties ==
    /\ g_pc = "ready"
    /\ \E checks \in BOOLEAN :
          LET p == get_properties(g_size)
          IN  g_out' = [ width |-> p.width, height |-> p.height,
                         pixmap_size |-> p.pixmap_size,
                         padding_size |-> p.padding_size,
                         underflow |-> p.underflow,
                         panicked |-> p.underflow /\ checks ]
    /\ g_pc' = "done"
    /\ UNCHANGED << file, cursor, pc, op, flag, od, header, buffer, err,
                    outcome, stage, pre, orig, intact, embedded, reloc_at,
                    restored, corrupts, g_size >>

GeomNext == Geom_get_properties

SpecGeom == GeomInit /\ [][GeomNext]_vars

\* ------------------------------------------------------------------------
\* Properties
\* ------------------------------------------------------------------------
\* bmp_to_bin has returned from a run on the bitmap exactly as bin_to_bmp
\* left it
RoundTripDone ==
    stage = "final" /\ op = "bmp_to_bin" /\ embedded /\ intact

\* bin_to_bmp has returned Ok and its output lies on disk untouched
BitmapAtRest ==
    stage = "bitmap" /\ pc = "idle" /\ intact

\* orig's first total_header_size bytes, zero-extended when orig is shorter
OrigPrefix == ReadAt(orig, 0, total_header_size)

\* C1: bin_to_bmp followed by bmp_to_bin on its output, with or without a
\* digest, succeeds and leaves exactly the bytes of the input file.
C1_RoundTrip ==
    RoundTripDone => (err = "none" /\ file = orig)

\* C2: for an input of 0 < S < 178 bytes bin_to_bmp zero-extends the file
\* to 178 bytes before it saves the prefix, bmp_to_bin on the produced
\* bitmap returns exactly the S input bytes, and the 5-byte file "hello"
\* is embedded with width 4, height 3, pixmap_size 48, padding_size 3.
C2_ShortFile ==
    (Len(orig) > 0 /\ Len(orig) < total_header_size) =>
        /\ (op = "bin_to_bmp" /\ pc = "b_read") =>
               file = orig \o Zeros(total_header_size - Len(orig))
        /\ (orig = Hello /\ BitmapAtRest) =>
               /\ U32At(file, 18) = 4
               /\ U32At(file, 22) = 3
               /\ U32At(file, 34) = 48
               /\ U32At(file, 138) = 3
        /\ RoundTripDone => file = orig

\* C9: on a bitmap as bin_to_bmp left it, the offset bmp_to_bin seeks to
\* is the offset at which bin_to_bmp appended the saved prefix; the 178
\* bytes there are the input's first 178 bytes (zero-extended), and
\* exactly padding_size zero bytes follow them up to the end of the file.
C9_PrefixPosition ==
    (op = "bmp_to_bin" /\ pc = "e_read" /\ embedded /\ intact) =>
        /\ cursor = reloc_at
        /\ ReadAt(file, cursor, total_header_size) = OrigPrefix
        /\ Len(file) - (cursor + total_header_size) = padding_size(header)
        /\ \A i \in (cursor + total_header_size + 1)..Len(file) :
              file[i] = 0

\* C4: with verify requested, a successful bmp_to_bin reports NotPossible
\* when the stored optional digest is 0, Verified when the bitmap was
\* made with a digest and not modified since, and Mismatched when a digest
\* is stored whose low 127 bits differ from those of the restored file's
\* digest.
C4_VerifyOutcome ==
    (stage = "final" /\ op = "bmp_to_bin" /\ flag /\ err = "none") =>
        /\ header.b2b.od = Zeros(16) => outcome = "NotPossible"
        /\ (embedded /\ intact /\ od.some) => outcome = "Verified"
        /\ ( /\ header.b2b.od[16] >= 128
             /\ ClearBit127(header.b2b.od)
                  # ClearBit127(get_file_hash(file)) )
             => outcome = "Mismatched"

\* C3: for every file_size, get_properties returns without a panic a
\* tuple with pixmap_size = width * height * 4, pixmap_size >=
\* file_size + 40, padding_size = pixmap_size - file_size - 40 without
\* underflow (padding_size >= 0), and padding_size < pixmap_size.
C3_Geometry ==
    g_pc = "done" =>
        /\ ~g_out.panicked
        /\ g_out.pixmap_size = g_out.width * g_out.height * 4
        /\ g_out.pixmap_size >= g_size + 40
        /\ g_out.padding_size = g_out.pixmap_size - g_size - 40
        /\ g_out.padding_size >= 0
        /\ g_out.padding_size < g_out.pixmap_size

\* the header fields of a file of at least total_header_size bytes, read
\* straight from its bytes
IdOk(b) == U16At(b, 0) = BITMAP_ID
PaddingOk(b) == U32Lt(U32At(b, 138), U32At(b, 34))
SignatureOk(b) == \A i \in 1..16 : b[146 + i] = B2B_SIGNATURE[i]

\* C5: bmp_to_bin checks id, then padding bound, then signature, and
\* returns the error of the first check that fails: InvalidBitmapID for an
\* id other than 0x4D42 whatever else is wrong, else BadPaddingSize for
\* padding_size >= pixmap_size, else InvalidB2BSignature for a signature
\* that differs in any byte; when a check fails nothing is relocated.
C5_CheckOrder ==
    (stage = "final" /\ op = "bmp_to_bin" /\ Len(pre) >= total_header_size)
    =>  /\ err = "InvalidBitmapID" <=> ~IdOk(pre)
        /\ err = "BadPaddingSize" <=> (IdOk(pre) /\ ~PaddingOk(pre))
        /\ err = "InvalidB2BSignature" <=>
               (IdOk(pre) /\ PaddingOk(pre) /\ ~SignatureOk(pre))
        /\ ~(IdOk(pre) /\ PaddingOk(pre) /\ SignatureOk(pre)) =>
               /\ file = pre
               /\ buffer = Zeros(total_header_size)
               /\ restored = << >>

\* a produced bitmap whose id and signature were both changed is refused
\* with InvalidBitmapID
C5_Witness ==
    /\ stage = "final" /\ op = "bmp_to_bin" /\ embedded
    /\ ~IdOk(pre) /\ ~SignatureOk(pre)
    /\ err = "InvalidBitmapID"

\* C6: for a 0-byte input, with or without digest, bin_to_bmp leaves a
\* file whose header passes the id, padding and signature checks and
\* stores original_file_size 0, and bmp_to_bin on it succeeds and leaves a
\* 0-byte file.
C6_EmptyFile ==
    orig = << >> =>
        /\ BitmapAtRest =>
               /\ Len(file) >= total_header_size
               /\ IdOk(file) /\ PaddingOk(file) /\ SignatureOk(file)
               /\ U32At(file, 142) = 0
        /\ RoundTripDone => (err = "none" /\ file = << >>)

\* the empty file, embedded with a digest, has been converted back
C6_Witness ==
    orig = << >> /\ RoundTripDone /\ od.some /\ file = << >>

Relocated(b) ==
    SetLen(WriteAt(b, 0, ReadAt(b, Len(b) - total_header_size - U32At(b, 138),
                                total_header_size)),
           U32At(b, 142))

\* C8: what bmp_to_bin leaves on disk is the same with and without verify
\* and whatever verification reports: the file is as set_len left it, a
\* function of the bitmap alone; Verified, Mismatched and NotPossible are
\* reported only on request and never as an error.
C8_VerifyInformational ==
    op = "bmp_to_bin" =>
        /\ (pc = "e_verify" \/ (stage = "final" /\ err = "none")) =>
               (file = restored /\ file = Relocated(pre))
        /\ (stage = "final" /\ outcome # "none") => (flag /\ err = "none")
        /\ (stage = "final" /\ err = "none") =>
               outcome \in (IF flag
                            THEN { "Verified", "Mismatched", "NotPossible" }
                            ELSE { "none" })

\* verification has reported a mismatch and the restored file stands
C8_Witness ==
    /\ stage = "final" /\ op = "bmp_to_bin"
    /\ outcome = "Mismatched"
    /\ file = restored /\ file # pre

\* C10: while bmp_to_bin runs and after it returned, the file differs from
\* what it was when the call began only if the header was parsed and all
\* three checks passed; a call that fails to parse or fails a check
\* leaves bytes and length as they were.
C10_NoWriteBeforeValidation ==
    op = "bmp_to_bin" =>
        /\ file # pre =>
               /\ Len(pre) >= total_header_size
               /\ IdOk(pre) /\ PaddingOk(pre) /\ SignatureOk(pre)
               /\ pc \in { "e_set_len", "e_verify", "idle" }
        /\ err \in { "BincodeError", "InvalidBitmapID", "BadPaddingSize",
                      "InvalidB2BSignature" }
               => (stage = "final" /\ file = pre /\ Len(file) = Len(pre))

\* a produced bitmap with a changed signature is refused and left as it was
C10_Witness ==
    /\ stage = "final" /\ op = "bmp_to_bin" /\ embedded
    /\ err = "InvalidB2BSignature"
    /\ file = pre

====
